---------------------------- MODULE Spec2Model ----------------------------
(***************************************************************************)
(* Model of the gift-card intake page, src/app/add-card/page.tsx: the      *)
(* field validator, the duplicate lookup, the CSV parser, the session      *)
(* ledger (addedCards) and the single-entry state machine (pageState),     *)
(* together with the asynchronous file reads of the bulk import.           *)
(*                                                                         *)
(* A JavaScript string is modelled as a sequence of one-character strings, *)
(* so that trim, toLowerCase, split, parseFloat and the regular            *)
(* expressions are computed character by character as the code does.       *)
(***************************************************************************)
EXTENDS Integers, Sequences, FiniteSets, TLC

----------------------------------------------------------------------------
(* Bounds of the model                                                      *)

\* the ledger holds at most MaxCards records
MaxCards == 2
\* Date.now() advances by at most MaxClock milliseconds during the session
MaxClock == 1
\* at most MaxPending file reads are in flight at once
MaxPending == 2

----------------------------------------------------------------------------
(* JavaScript string primitives                                             *)

Digits == <<"0", "1", "2", "3", "4", "5", "6", "7", "8", "9">>
Upper == <<"A", "B", "C", "D", "E", "F", "G", "H", "I", "J", "K", "L", "M",
           "N", "O", "P", "Q", "R", "S", "T", "U", "V", "W", "X", "Y", "Z">>
Lower == <<"a", "b", "c", "d", "e", "f", "g", "h", "i", "j", "k", "l", "m",
           "n", "o", "p", "q", "r", "s", "t", "u", "v", "w", "x", "y", "z">>

IndexIn(c, alphabet) ==
  IF \E i \in 1..Len(alphabet) : alphabet[i] = c
  THEN CHOOSE i \in 1..Len(alphabet) : alphabet[i] = c
  ELSE 0

\* \d of the regular expressions
IsDigit(c) == IndexIn(c, Digits) > 0
DigitVal(c) == IndexIn(c, Digits) - 1

\* white space and line terminators, as String.prototype.trim strips them
IsSpace(c) == c \in {" ", "\t", "\n", "\r"}

LowerChar(c) == IF IndexIn(c, Upper) > 0 THEN Lower[IndexIn(c, Upper)] ELSE c

\* String.prototype.toLowerCase
ToLowerCase(s) == [i \in 1..Len(s) |-> LowerChar(s[i])]

\* s.slice(from) with a 0-based from: the characters after the first `from`
Drop(s, from) == SubSeq(s, from + 1, Len(s))
\* s.slice(0, n)
Take(s, n) == SubSeq(s, 1, IF n < Len(s) THEN n ELSE Len(s))

\* the number of leading white-space characters of s
LeadingSpaces(s) ==
  CHOOSE n \in 0..Len(s) :
    /\ \A i \in 1..n : IsSpace(s[i])
    /\ (n = Len(s) \/ ~IsSpace(s[n + 1]))

\* the number of trailing white-space characters of s
TrailingSpaces(s) ==
  CHOOSE n \in 0..Len(s) :
    /\ \A i \in (Len(s) - n + 1)..Len(s) : IsSpace(s[i])
    /\ (n = Len(s) \/ ~IsSpace(s[Len(s) - n]))

\* the number of decimal digits of s from 0-based position k on
LeadingDigits(s, k) ==
  CHOOSE n \in 0..(Len(s) - k) :
    /\ \A i \in 1..n : IsDigit(s[k + i])
    /\ (n = Len(s) - k \/ ~IsDigit(s[k + n + 1]))

TrimStart(s) == Drop(s, LeadingSpaces(s))

\* String.prototype.trim
Trim(s) ==
  LET t == TrimStart(s)
  IN  SubSeq(t, 1, Len(t) - TrailingSpaces(t))

\* s.startsWith(p) at 0-based position k
StartsWithAt(s, p, k) ==
  /\ k + Len(p) <= Len(s)
  /\ \A i \in 1..Len(p) : s[k + i] = p[i]

\* String.prototype.includes
Includes(s, p) == \E k \in 0..Len(s) : StartsWithAt(s, p, k)

\* String.prototype.endsWith
EndsWith(s, p) == Len(p) <= Len(s) /\ StartsWithAt(s, p, Len(s) - Len(p))

\* s.replace(/\D/g, ""): the decimal digits of s
RECURSIVE DigitsOnly(_)
DigitsOnly(s) ==
  IF s = <<>> THEN <<>>
  ELSE (IF IsDigit(Head(s)) THEN <<Head(s)>> ELSE <<>>) \o DigitsOnly(Tail(s))

\* s.replace(/[^0-9.]/g, ""): the decimal digits and dots of s
RECURSIVE DigitsAndDotsOnly(_)
DigitsAndDotsOnly(s) ==
  IF s = <<>> THEN <<>>
  ELSE (IF IsDigit(Head(s)) \/ Head(s) = "." THEN <<Head(s)>> ELSE <<>>)
         \o DigitsAndDotsOnly(Tail(s))

\* the value of a string of decimal digits
RECURSIVE DigitsValue(_)
DigitsValue(s) ==
  IF s = <<>> THEN 0
  ELSE 10 * DigitsValue(SubSeq(s, 1, Len(s) - 1)) + DigitVal(s[Len(s)])

----------------------------------------------------------------------------
(* parseFloat                                                               *)

\* A parsed number: NaN, an infinity, or (-1)^neg * mant * 10^(exp - frac).
NaN == [kind |-> "nan", neg |-> FALSE, mant |-> 0, frac |-> 0, exp |-> 0]

IsNaN(v) == v.kind = "nan"

\* v <= 0 of a number that is not NaN
LeqZero(v) == v.neg \/ (v.kind = "num" /\ v.mant = 0)

StrInfinity == <<"I", "n", "f", "i", "n", "i", "t", "y">>

\* The steps of parseFloat on the string t without its leading white space.
\* Positions are 0-based: sgn is the length of the sign, nInt and nFr count
\* the digits before and after the dot, mEnd is where the mantissa ends.

IsSignAt(t, k) == k < Len(t) /\ t[k + 1] \in {"+", "-"}
IsMinusAt(t, k) == k < Len(t) /\ t[k + 1] = "-"

\* the exponent e<sign><digits> at position mEnd, 0 when there is none
ExponentDigits(t, k) == SubSeq(t, k + 1, k + LeadingDigits(t, k))
ExponentAt(t, mEnd) ==
  IF mEnd < Len(t) /\ t[mEnd + 1] \in {"e", "E"}
  THEN IF IsSignAt(t, mEnd + 1)
       THEN IF IsMinusAt(t, mEnd + 1)
            THEN 0 - DigitsValue(ExponentDigits(t, mEnd + 2))
            ELSE DigitsValue(ExponentDigits(t, mEnd + 2))
       ELSE DigitsValue(ExponentDigits(t, mEnd + 1))
  ELSE 0

ParseNumber(t, sgn, nInt, nFr, dot) ==
  IF nInt = 0 /\ nFr = 0
  THEN IF StartsWithAt(t, StrInfinity, sgn)
       THEN [kind |-> "inf", neg |-> IsMinusAt(t, 0), mant |-> 0, frac |-> 0,
             exp |-> 0]
       ELSE NaN
  ELSE [kind |-> "num",
        neg  |-> IsMinusAt(t, 0),
        mant |-> DigitsValue(SubSeq(t, sgn + 1, sgn + nInt)
                               \o SubSeq(t, sgn + nInt + 2, sgn + nInt + 1 + nFr)),
        frac |-> nFr,
        exp  |-> ExponentAt(t, sgn + nInt + (IF dot THEN 1 + nFr ELSE 0))]

ParseFraction(t, sgn, nInt, dot) ==
  ParseNumber(t, sgn, nInt,
              IF dot THEN LeadingDigits(t, sgn + nInt + 1) ELSE 0, dot)

ParseMantissa(t, sgn) ==
  ParseFraction(t, sgn, LeadingDigits(t, sgn),
                sgn + LeadingDigits(t, sgn) < Len(t)
                  /\ t[sgn + LeadingDigits(t, sgn) + 1] = ".")

\* parseFloat(s): leading white space is skipped, then the longest prefix that
\* is a decimal literal (sign, digits, fraction, exponent) is converted and
\* whatever follows it is ignored; NaN when there is no such prefix.
ParseFloat(s) ==
  ParseMantissa(TrimStart(s), IF IsSignAt(TrimStart(s), 0) THEN 1 ELSE 0)

\* !amount || isNaN(amt) || amt <= 0
AmountInvalid(amount) ==
  amount = <<>> \/ IsNaN(ParseFloat(amount)) \/ LeqZero(ParseFloat(amount))

\* !/^\d{4}$/.test(last4)
Last4Invalid(last4) ==
  ~(Len(last4) = 4 /\ \A i \in 1..4 : IsDigit(last4[i]))

----------------------------------------------------------------------------
(* Helpers: validateForm, findDuplicate, parseCSV                           *)

EMPTY_FORM ==
  [store |-> <<>>, last4 |-> <<>>, amount |-> <<>>, addedBy |-> <<>>,
   notes |-> <<>>]

\* the fields of FieldErrors and the rule each one fails by
StoreFails(form)   == Trim(form.store) = <<>>
Last4Fails(form)   == Last4Invalid(form.last4)
AmountFails(form)  == AmountInvalid(form.amount)
AddedByFails(form) == Trim(form.addedBy) = <<>>

FieldMessage ==
  [store   |-> "Store is required",
   last4   |-> "Must be exactly 4 digits",
   amount  |-> "Enter a valid dollar amount",
   addedBy |-> "Added by is required"]

\* validateForm returning at the first rule that fails
ValidateFormFirstErrorOnly(form) ==
  LET failing == IF StoreFails(form) THEN {"store"}
                 ELSE IF Last4Fails(form) THEN {"last4"}
                 ELSE IF AmountFails(form) THEN {"amount"}
                 ELSE IF AddedByFails(form) THEN {"addedBy"}
                 ELSE {}
  IN  [f \in failing |-> FieldMessage[f]]

\* validateForm: the object e, a function from the failing fields to their
\* messages; a field that passes its rule is no key of it.
ValidateForm(form) ==
  LET failing == {f \in DOMAIN FieldMessage :
                    \/ f = "store"   /\ StoreFails(form)
                    \/ f = "last4"   /\ Last4Fails(form)
                    \/ f = "amount"  /\ AmountFails(form)
                    \/ f = "addedBy" /\ AddedByFails(form)}
  IN  [f \in failing |-> FieldMessage[f]]

\* {} : the FieldErrors object without keys
NoErrors == [f \in {} |-> ""]

\* null
Null == [isNull |-> TRUE]

\* findDuplicate comparing the store names as typed, without toLowerCase
FindDuplicateCaseSensitive(store, last4, cards) ==
  LET hits == {i \in 1..Len(cards) :
                 cards[i].store = store /\ cards[i].last4 = last4}
  IN  IF hits = {} THEN Null
      ELSE cards[CHOOSE i \in hits : \A j \in hits : i <= j]

\* findDuplicate with findLast in the place of find
FindDuplicateLast(store, last4, cards) ==
  LET hits == {i \in 1..Len(cards) :
                 /\ ToLowerCase(cards[i].store) = ToLowerCase(store)
                 /\ cards[i].last4 = last4}
  IN  IF hits = {} THEN Null
      ELSE cards[CHOOSE i \in hits : \A j \in hits : i >= j]

\* findDuplicate: cards.find(...) ?? null, the first card of `cards` with the
\* same lower-cased store and the same last4 string
FindDuplicate(store, last4, cards) ==
  LET hits == {i \in 1..Len(cards) :
                 /\ ToLowerCase(cards[i].store) = ToLowerCase(store)
                 /\ cards[i].last4 = last4}
  IN  IF hits = {} THEN Null
      ELSE cards[CHOOSE i \in hits : \A j \in hits : i <= j]

\* s.split(sep) for a one-character separator: always at least one piece
RECURSIVE Split(_, _)
Split(s, sep) ==
  IF \E i \in 1..Len(s) : s[i] = sep
  THEN LET k == CHOOSE i \in 1..Len(s) :
                  s[i] = sep /\ \A j \in 1..(i - 1) : s[j] # sep
       IN  <<SubSeq(s, 1, k - 1)>> \o Split(Drop(s, k), sep)
  ELSE <<s>>

\* s.split(/\r?\n/): a line ends at "\n", and a "\r" right before it belongs
\* to the line ending
SplitLines(s) ==
  LET raw == Split(s, "\n")
  IN  [i \in 1..Len(raw) |->
         IF i < Len(raw) /\ raw[i] # <<>> /\ raw[i][Len(raw[i])] = "\r"
         THEN SubSeq(raw[i], 1, Len(raw[i]) - 1)
         ELSE raw[i]]

\* parts.join(",")
RECURSIVE Join(_)
Join(parts) ==
  IF parts = <<>> THEN <<>>
  ELSE IF Len(parts) = 1 THEN parts[1]
  ELSE parts[1] \o <<",">> \o Join(Tail(parts))

\* array.filter(keep) for the lines with l.trim() non-empty
RECURSIVE NonBlank(_)
NonBlank(lines) ==
  IF lines = <<>> THEN <<>>
  ELSE (IF Trim(Head(lines)) # <<>> THEN <<Head(lines)>> ELSE <<>>)
         \o NonBlank(Tail(lines))

StrStore == <<"s", "t", "o", "r", "e">>

\* the map callback of parseCSV with the duplicate tested before the errors
ParseLineDuplicateFirst(line, i, cards) ==
  LET raw     == Split(line, ",")
      parts   == [k \in 1..Len(raw) |-> Trim(raw[k])]
      Part(k) == IF k <= Len(parts) THEN parts[k] ELSE <<>>
      store   == Part(1)
      last4   == Part(2)
      amount  == Part(3)
      addedBy == Part(4)
      notes   == Trim(Join(Drop(parts, 4)))
      errors  ==
        (IF store = <<>> THEN <<"Store missing">> ELSE <<>>)
        \o (IF Last4Invalid(last4)
            THEN <<"Last 4 must be exactly 4 digits">> ELSE <<>>)
        \o (IF AmountInvalid(amount) THEN <<"Invalid amount">> ELSE <<>>)
        \o (IF addedBy = <<>> THEN <<"Added by missing">> ELSE <<>>)
      isDup   == FindDuplicate(store, last4, cards)
  IN  [rowNum  |-> i + 1,
       store   |-> store,
       last4   |-> last4,
       amount  |-> amount,
       addedBy |-> addedBy,
       notes   |-> notes,
       status  |-> IF isDup # Null THEN "duplicate"
                   ELSE IF Len(errors) > 0 THEN "error" ELSE "valid",
       errors  |-> errors]

\* the map callback of parseCSV with amt < 0 in the place of amt <= 0
ParseLineAcceptsZero(line, i, cards) ==
  LET raw     == Split(line, ",")
      parts   == [k \in 1..Len(raw) |-> Trim(raw[k])]
      Part(k) == IF k <= Len(parts) THEN parts[k] ELSE <<>>
      store   == Part(1)
      last4   == Part(2)
      amount  == Part(3)
      addedBy == Part(4)
      notes   == Trim(Join(Drop(parts, 4)))
      errors  ==
        (IF store = <<>> THEN <<"Store missing">> ELSE <<>>)
        \o (IF Last4Invalid(last4)
            THEN <<"Last 4 must be exactly 4 digits">> ELSE <<>>)
        \o (IF \/ amount = <<>>
                \/ IsNaN(ParseFloat(amount))
                \/ ParseFloat(amount).neg
            THEN <<"Invalid amount">> ELSE <<>>)
        \o (IF addedBy = <<>> THEN <<"Added by missing">> ELSE <<>>)
      isDup   == FindDuplicate(store, last4, cards)
  IN  [rowNum  |-> i + 1,
       store   |-> store,
       last4   |-> last4,
       amount  |-> amount,
       addedBy |-> addedBy,
       notes   |-> notes,
       status  |-> IF Len(errors) > 0 THEN "error"
                   ELSE IF isDup # Null THEN "duplicate" ELSE "valid",
       errors  |-> errors]

\* the map callback of parseCSV taking the fifth token alone for the notes
ParseLineFifthTokenOnly(line, i, cards) ==
  LET raw     == Split(line, ",")
      parts   == [k \in 1..Len(raw) |-> Trim(raw[k])]
      Part(k) == IF k <= Len(parts) THEN parts[k] ELSE <<>>
      store   == Part(1)
      last4   == Part(2)
      amount  == Part(3)
      addedBy == Part(4)
      notes   == Part(5)
      errors  ==
        (IF store = <<>> THEN <<"Store missing">> ELSE <<>>)
        \o (IF Last4Invalid(last4)
            THEN <<"Last 4 must be exactly 4 digits">> ELSE <<>>)
        \o (IF AmountInvalid(amount) THEN <<"Invalid amount">> ELSE <<>>)
        \o (IF addedBy = <<>> THEN <<"Added by missing">> ELSE <<>>)
      isDup   == FindDuplicate(store, last4, cards)
  IN  [rowNum  |-> i + 1,
       store   |-> store,
       last4   |-> last4,
       amount  |-> amount,
       addedBy |-> addedBy,
       notes   |-> notes,
       status  |-> IF Len(errors) > 0 THEN "error"
                   ELSE IF isDup # Null THEN "duplicate" ELSE "valid",
       errors  |-> errors]

\* one line of the file as a CSVRow, i its 0-based index among the data lines
ParseLine(line, i, cards) ==
  LET raw     == Split(line, ",")
      parts   == [k \in 1..Len(raw) |-> Trim(raw[k])]
      Part(k) == IF k <= Len(parts) THEN parts[k] ELSE <<>>
      store   == Part(1)
      last4   == Part(2)
      amount  == Part(3)
      addedBy == Part(4)
      notes   == Trim(Join(Drop(parts, 4)))
      errors  ==
        (IF store = <<>> THEN <<"Store missing">> ELSE <<>>)
        \o (IF Last4Invalid(last4)
            THEN <<"Last 4 must be exactly 4 digits">> ELSE <<>>)
        \o (IF AmountInvalid(amount) THEN <<"Invalid amount">> ELSE <<>>)
        \o (IF addedBy = <<>> THEN <<"Added by missing">> ELSE <<>>)
      isDup   == FindDuplicate(store, last4, cards)
  IN  [rowNum  |-> i + 1,
       store   |-> store,
       last4   |-> last4,
       amount  |-> amount,
       addedBy |-> addedBy,
       notes   |-> notes,
       status  |-> IF Len(errors) > 0 THEN "error"
                   ELSE IF isDup # Null THEN "duplicate" ELSE "valid",
       errors  |-> errors]

\* parseCSV looking for the duplicate of a row also among the rows before it
ParseCSVSeeingEarlierRows(text, cards) ==
  LET lines     == SplitLines(Trim(text))
      dataLines == IF Includes(ToLowerCase(lines[1]), StrStore)
                   THEN Tail(lines) ELSE lines
      kept      == NonBlank(dataLines)
  IN  [i \in 1..Len(kept) |->
         ParseLine(kept[i], i - 1,
                   cards \o [j \in 1..(i - 1) |->
                               ParseLine(kept[j], j - 1, cards)])]

\* parseCSV taking the first line for a data line whatever it holds
ParseCSVKeepsHeader(text, cards) ==
  LET lines == SplitLines(Trim(text))
      kept  == NonBlank(lines)
  IN  [i \in 1..Len(kept) |-> ParseLine(kept[i], i - 1, cards)]

\* parseCSV with the cards of the pre-existing dataset as a parameter
ParseCSVWith(text, cards) ==
  LET lines     == SplitLines(Trim(text))
      dataLines == IF Includes(ToLowerCase(lines[1]), StrStore)
                   THEN Tail(lines) ELSE lines
      kept      == NonBlank(dataLines)
  IN  [i \in 1..Len(kept) |-> ParseLine(kept[i], i - 1, cards)]

----------------------------------------------------------------------------
(* Inputs of the model                                                      *)

\* a string literal as a sequence of characters
Chars(str) == [i \in 1..Len(str) |-> SubSeq(str, i, i)]

\* a number of the dataset
Num(n) == [kind |-> "num", neg |-> FALSE, mant |-> n, frac |-> 0, exp |-> 0]

\* existingData.cards, the pre-existing dataset: one card, id 1
ExistingCards ==
  <<[id |-> 1, store |-> Chars("Gap"), last4 |-> Chars("0012"),
     initialBalance |-> Num(50), remainingBalance |-> Num(20),
     status |-> "Active", addedDate |-> "2024-01-01",
     addedBy |-> Chars("Lisa Chen")]>>

\* new Date().toISOString().slice(0, 10) during the session
Today == "2026-01-01"

\* Date.now() when the session starts, in milliseconds; far above every id
\* of the dataset
SessionStart == 1000000

\* the readings of Date.now() that may follow the reading `from`
ClockFrom(from) == from..(SessionStart + MaxClock)

\* what the operator types into the fields
StoreInputs   == {Chars("Gap"), Chars("gap")}
Last4Inputs   == {Chars("56789"), Chars("00-12")}
AmountInputs  == {Chars("$5")}
AddedByInputs == {Chars("Al")}
NotesInputs   == {Chars("")}

\* the files the operator uploads
FileA ==
  [name |-> Chars("a.csv"),
   text |-> Chars("store,last4,amount\nGap,5678,5,Al\r\ngap,0012,5,Al\nGap,12,,\n")]
FileB ==
  [name |-> Chars("b.csv"),
   text |-> Chars("Gap,5678,5,Al,n\nGap,5678,5,Al,n")]
FileC ==
  [name |-> Chars("c.txt"),
   text |-> Chars("Gap,5678,5,Al")]
Files == {FileA, FileB, FileC}

\* the content of the file of a given name, as reader.readAsText delivers it
TextOf(name) == (CHOOSE f \in Files : f.name = name).text

\* parseCSV
ParseCSV(text) == ParseCSVWith(text, ExistingCards)

\* parseCSV(text) of each file of the model, by file name
ParsedFile == [name \in {f.name : f \in Files} |-> ParseCSV(TextOf(name))]

----------------------------------------------------------------------------
(* State                                                                    *)

VARIABLES
  form,             \* useState<FormData>
  fieldErrors,      \* useState<FieldErrors>: the keys that hold a message
  pageState,        \* "form" | "confirm-duplicate" | "success"
  addedCards,       \* the session ledger
  pendingDuplicate, \* the held duplicate match, or Null
  csvRows,          \* the rows displayed in the preview table
  csvFileName,      \* the file name displayed in the drop zone
  csvImportDone,
  importedCount,
  reads,            \* the names of the files whose FileReader reads are
                    \* in flight, in the order started
  now,              \* the latest reading of Date.now()
  submitted         \* history: the candidate whose submit last entered
                    \* confirm-duplicate, Null once it is edited or committed

vars ==
  <<form, fieldErrors, pageState, addedCards, pendingDuplicate, csvRows,
    csvFileName, csvImportDone, importedCount, reads, now, submitted>>

formVars == <<form, fieldErrors, pageState, pendingDuplicate, submitted>>
csvVars  == <<csvRows, csvFileName, csvImportDone, importedCount, reads>>

Init ==
  /\ form = EMPTY_FORM
  /\ fieldErrors = NoErrors
  /\ pageState = "form"
  /\ addedCards = <<>>
  /\ pendingDuplicate = Null
  /\ csvRows = <<>>
  /\ csvFileName = <<>>
  /\ csvImportDone = FALSE
  /\ importedCount = 0
  /\ reads = <<>>
  /\ now = SessionStart
  /\ submitted = Null

----------------------------------------------------------------------------
(* Derived values of a render                                               *)

\* allCards without the cards added this session
AllCardsDatasetOnly == ExistingCards

\* allCards: the duplicate pool, the dataset followed by the session ledger
AllCards ==
  ExistingCards \o
  [i \in 1..Len(addedCards) |->
     [id |-> 9000 + (i - 1),
      store |-> addedCards[i].store,
      last4 |-> addedCards[i].last4,
      initialBalance |-> ParseFloat(addedCards[i].amount),
      remainingBalance |-> ParseFloat(addedCards[i].amount),
      status |-> "Active",
      addedDate |-> Today,
      addedBy |-> addedCards[i].addedBy]]

\* array.filter on the status of the rows
RECURSIVE RowsWithStatus(_, _)
RowsWithStatus(rows, statuses) ==
  IF rows = <<>> THEN <<>>
  ELSE (IF Head(rows).status \in statuses THEN <<Head(rows)>> ELSE <<>>)
         \o RowsWithStatus(Tail(rows), statuses)

csvValid      == Len(RowsWithStatus(csvRows, {"valid"}))
csvDuplicates == Len(RowsWithStatus(csvRows, {"duplicate"}))

\* { ...form, id }
WithId(f, id) ==
  [store |-> f.store, last4 |-> f.last4, amount |-> f.amount,
   addedBy |-> f.addedBy, notes |-> f.notes, id |-> id]

\* a ledger record without its id
Fields(c) ==
  [store |-> c.store, last4 |-> c.last4, amount |-> c.amount,
   addedBy |-> c.addedBy, notes |-> c.notes]

----------------------------------------------------------------------------
(* Single entry                                                             *)

\* setField(key, value): the field is set and its error is cleared
SetField(key, value) ==
  /\ pageState = "form"
  /\ form' = [form EXCEPT ![key] = value]
  /\ fieldErrors' = [f \in DOMAIN fieldErrors \ {key} |-> fieldErrors[f]]
  /\ submitted' = Null
  /\ UNCHANGED <<pageState, addedCards, pendingDuplicate, now>>
  /\ UNCHANGED csvVars

\* the onChange handlers of the five inputs
StoreChange   == \E v \in StoreInputs : SetField("store", v)
Last4Change   == \E v \in Last4Inputs : SetField("last4", Take(DigitsOnly(v), 4))
AmountChange  == \E v \in AmountInputs : SetField("amount", DigitsAndDotsOnly(v))
AddedByChange == \E v \in AddedByInputs : SetField("addedBy", v)
NotesChange   == \E v \in NotesInputs : SetField("notes", v)

\* commitCard setting the ledger to the new card alone: [{ ...form, id }]
CommitCardReplacesLedger(t) ==
  /\ Len(addedCards) < MaxCards
  /\ addedCards' = <<WithId(form, t)>>
  /\ pageState' = "success"
  /\ now' = t
  /\ submitted' = Null
  /\ UNCHANGED <<form, fieldErrors, pendingDuplicate>>
  /\ UNCHANGED csvVars

\* commitCard putting the new card first: [{ ...form, id }, ...prev]
CommitCardPrepends(t) ==
  /\ Len(addedCards) < MaxCards
  /\ addedCards' = <<WithId(form, t)>> \o addedCards
  /\ pageState' = "success"
  /\ now' = t
  /\ submitted' = Null
  /\ UNCHANGED <<form, fieldErrors, pendingDuplicate>>
  /\ UNCHANGED csvVars

\* commitCard, t the reading of Date.now()
CommitCard(t) ==
  /\ Len(addedCards) < MaxCards
  /\ addedCards' = Append(addedCards, WithId(form, t))
  /\ pageState' = "success"
  /\ now' = t
  /\ submitted' = Null
  /\ UNCHANGED <<form, fieldErrors, pendingDuplicate>>
  /\ UNCHANGED csvVars

\* handleSubmitClick without the return after setFieldErrors(errors): the
\* duplicate check and the commit follow also for a candidate with errors
HandleSubmitClickNoReturn ==
  /\ pageState = "form"
  /\ LET errors == ValidateForm(form)
         dup    == FindDuplicate(form.store, form.last4, AllCards)
     IN  /\ fieldErrors' = IF DOMAIN errors # {} THEN errors ELSE fieldErrors
         /\ IF dup # Null
            THEN /\ pendingDuplicate' = dup
                 /\ pageState' = "confirm-duplicate"
                 /\ submitted' = form
                 /\ UNCHANGED <<form, addedCards, now>>
                 /\ UNCHANGED csvVars
            ELSE \E t \in ClockFrom(now) :
                   /\ Len(addedCards) < MaxCards
                   /\ addedCards' = Append(addedCards, WithId(form, t))
                   /\ pageState' = "success"
                   /\ now' = t
                   /\ submitted' = Null
                   /\ UNCHANGED <<form, pendingDuplicate>>
                   /\ UNCHANGED csvVars

\* handleSubmitClick, the "Add Gift Card" button of the form
HandleSubmitClick ==
  /\ pageState = "form"
  /\ LET errors == ValidateForm(form)
         dup    == FindDuplicate(form.store, form.last4, AllCards)
     IN  IF DOMAIN errors # {}
         THEN /\ fieldErrors' = errors
              /\ UNCHANGED <<form, pageState, addedCards, pendingDuplicate,
                             submitted, now>>
              /\ UNCHANGED csvVars
         ELSE IF dup # Null
         THEN /\ pendingDuplicate' = dup
              /\ pageState' = "confirm-duplicate"
              /\ submitted' = form
              /\ UNCHANGED <<form, fieldErrors, addedCards, now>>
              /\ UNCHANGED csvVars
         ELSE \E t \in ClockFrom(now) : CommitCard(t)

\* "Add Anyway" checking for the duplicate again before it commits
AddAnywayRechecks ==
  /\ pageState = "confirm-duplicate"
  /\ pendingDuplicate # Null
  /\ FindDuplicate(form.store, form.last4, AllCards) = Null
  /\ \E t \in ClockFrom(now) : CommitCard(t)

\* the "Add Anyway" button of the duplicate confirmation
AddAnyway ==
  /\ pageState = "confirm-duplicate"
  /\ pendingDuplicate # Null
  /\ \E t \in ClockFrom(now) : CommitCard(t)

\* "Go Back & Edit" without setPageState("form")
GoBackOnlyClearsDuplicate ==
  /\ pageState = "confirm-duplicate"
  /\ pendingDuplicate # Null
  /\ pendingDuplicate' = Null
  /\ UNCHANGED <<form, fieldErrors, pageState, addedCards, submitted, now>>
  /\ UNCHANGED csvVars

\* "Go Back & Edit" emptying the form as "Add Another" does
GoBackResetsForm ==
  /\ pageState = "confirm-duplicate"
  /\ pendingDuplicate # Null
  /\ pendingDuplicate' = Null
  /\ pageState' = "form"
  /\ form' = EMPTY_FORM
  /\ UNCHANGED <<fieldErrors, addedCards, submitted, now>>
  /\ UNCHANGED csvVars

\* the "Go Back & Edit" button of the duplicate confirmation
GoBack ==
  /\ pageState = "confirm-duplicate"
  /\ pendingDuplicate # Null
  /\ pendingDuplicate' = Null
  /\ pageState' = "form"
  /\ UNCHANGED <<form, fieldErrors, addedCards, submitted, now>>
  /\ UNCHANGED csvVars

\* handleAddAnother without setPendingDuplicate(null)
HandleAddAnotherKeepsDuplicate ==
  /\ pageState = "success"
  /\ addedCards # <<>>
  /\ form' = EMPTY_FORM
  /\ fieldErrors' = NoErrors
  /\ pageState' = "form"
  /\ UNCHANGED <<pendingDuplicate, addedCards, submitted, now>>
  /\ UNCHANGED csvVars

\* handleAddAnother without setForm(EMPTY_FORM)
HandleAddAnotherKeepsForm ==
  /\ pageState = "success"
  /\ addedCards # <<>>
  /\ fieldErrors' = NoErrors
  /\ pendingDuplicate' = Null
  /\ pageState' = "form"
  /\ UNCHANGED <<form, addedCards, submitted, now>>
  /\ UNCHANGED csvVars

\* handleAddAnother, the "Add Another" button of the success view
HandleAddAnother ==
  /\ pageState = "success"
  /\ addedCards # <<>>
  /\ form' = EMPTY_FORM
  /\ fieldErrors' = NoErrors
  /\ pendingDuplicate' = Null
  /\ pageState' = "form"
  /\ UNCHANGED <<addedCards, submitted, now>>
  /\ UNCHANGED csvVars

----------------------------------------------------------------------------
(* Bulk import                                                              *)

\* processFile without the test of the file name
ProcessFileAnyName(file) ==
  /\ Len(reads) < MaxPending
  /\ csvFileName' = file.name
  /\ csvImportDone' = FALSE
  /\ reads' = Append(reads, file.name)
  /\ UNCHANGED <<csvRows, importedCount, addedCards, now>>
  /\ UNCHANGED formVars

\* processFile: a file that is not named *.csv is ignored; otherwise its name
\* is displayed, the import-done flag is cleared and a read is started
ProcessFile(file) ==
  IF ~EndsWith(file.name, Chars(".csv"))
  THEN UNCHANGED vars
  ELSE /\ Len(reads) < MaxPending
       /\ csvFileName' = file.name
       /\ csvImportDone' = FALSE
       /\ reads' = Append(reads, file.name)
       /\ UNCHANGED <<csvRows, importedCount, addedCards, now>>
       /\ UNCHANGED formVars

\* reader.onload of the i-th read in flight: setCsvRows(parseCSV(text))
ReaderOnload(i) ==
  /\ csvRows' = ParsedFile[reads[i]]
  /\ reads' = SubSeq(reads, 1, i - 1) \o SubSeq(reads, i + 1, Len(reads))
  /\ UNCHANGED <<csvFileName, csvImportDone, importedCount, addedCards, now>>
  /\ UNCHANGED formVars

\* handleCSVImport with the filter r.status !== "valid" in the place of
\* r.status !== "error"
HandleCSVImportErrorsToo(includeAll, t) ==
  LET toImport == RowsWithStatus(csvRows, IF includeAll
                                          THEN {"error", "duplicate"}
                                          ELSE {"valid"})
      newCards == [i \in 1..Len(toImport) |->
                     WithId(toImport[i], t + (i - 1))]
  IN  /\ csvRows # <<>>
      /\ ~csvImportDone
      /\ IF includeAll THEN csvDuplicates > 0 ELSE csvValid > 0
      /\ Len(addedCards) + Len(toImport) <= MaxCards
      /\ addedCards' = addedCards \o newCards
      /\ importedCount' = Len(toImport)
      /\ csvImportDone' = TRUE
      /\ now' = t
      /\ UNCHANGED <<csvRows, csvFileName, reads>>
      /\ UNCHANGED formVars

\* handleCSVImport with the filter r.status !== "error" for both buttons
HandleCSVImportAllButErrors(includeAll, t) ==
  LET toImport == RowsWithStatus(csvRows, {"valid", "duplicate"})
      newCards == [i \in 1..Len(toImport) |->
                     WithId(toImport[i], t + (i - 1))]
  IN  /\ csvRows # <<>>
      /\ ~csvImportDone
      /\ IF includeAll THEN csvDuplicates > 0 ELSE csvValid > 0
      /\ Len(addedCards) + Len(toImport) <= MaxCards
      /\ addedCards' = addedCards \o newCards
      /\ importedCount' = Len(toImport)
      /\ csvImportDone' = TRUE
      /\ now' = t
      /\ UNCHANGED <<csvRows, csvFileName, reads>>
      /\ UNCHANGED formVars

\* handleCSVImport, behind the buttons "Import Valid" (includeAll = FALSE) and
\* "Import All Except Errors" (includeAll = TRUE); t the reading of Date.now().
\* The buttons are rendered while rows are displayed and the import-done flag
\* is off, the first with a valid row, the second with a duplicate row.
HandleCSVImport(includeAll, t) ==
  LET toImport == RowsWithStatus(csvRows, IF includeAll
                                          THEN {"valid", "duplicate"}
                                          ELSE {"valid"})
      newCards == [i \in 1..Len(toImport) |->
                     WithId(toImport[i], t + (i - 1))]
  IN  /\ csvRows # <<>>
      /\ ~csvImportDone
      /\ IF includeAll THEN csvDuplicates > 0 ELSE csvValid > 0
      /\ Len(addedCards) + Len(toImport) <= MaxCards
      /\ addedCards' = addedCards \o newCards
      /\ importedCount' = Len(toImport)
      /\ csvImportDone' = TRUE
      /\ now' = t
      /\ UNCHANGED <<csvRows, csvFileName, reads>>
      /\ UNCHANGED formVars

----------------------------------------------------------------------------
(* Specification                                                            *)

Next ==
  \/ StoreChange
  \/ Last4Change
  \/ AmountChange
  \/ AddedByChange
  \/ NotesChange
  \/ HandleSubmitClick
  \/ AddAnyway
  \/ GoBack
  \/ HandleAddAnother
  \/ \E file \in Files : ProcessFile(file)
  \/ \E i \in 1..Len(reads) : ReaderOnload(i)
  \/ \E includeAll \in BOOLEAN, t \in ClockFrom(now) :
       HandleCSVImport(includeAll, t)

Spec == Init /\ [][Next]_vars

----------------------------------------------------------------------------
(* Properties of the single-entry state machine and of the ledger           *)

\* a is a prefix of b
IsPrefix(a, b) == Len(a) <= Len(b) /\ SubSeq(b, 1, Len(a)) = a

\* the records that a step appends to the ledger
Appended == SubSeq(addedCards', Len(addedCards) + 1, Len(addedCards'))

\* card c has the last4 of candidate f and its store up to letter case
Matches(c, f) ==
  c.last4 = f.last4 /\ ToLowerCase(c.store) = ToLowerCase(f.store)

\* candidate f matches a card of the dataset or of the ledger
MatchesDataset(f) ==
  \E i \in 1..Len(ExistingCards) : Matches(ExistingCards[i], f)
MatchesLedger(f) ==
  \E i \in 1..Len(addedCards) : Matches(addedCards[i], f)
PoolHasMatch(f) == MatchesDataset(f) \/ MatchesLedger(f)

\* the candidate passes the four rules
IsValid(f) == DOMAIN ValidateForm(f) = {}

\* a step of handleSubmitClick that changes the state; the handler never
\* changes the form or the bulk import, which is tested first
SubmitStep ==
  /\ pageState = "form"
  /\ form' = form
  /\ UNCHANGED csvVars
  /\ vars' # vars
  /\ HandleSubmitClick

\* C1: in state form, a submit of a valid candidate that matches no card of
\* the dataset or of the ledger moves to success and appends exactly one
\* record to the ledger, with the five fields of the candidate.
C1_SubmitWithoutDuplicateCommits ==
  [][(SubmitStep /\ IsValid(form) /\ ~PoolHasMatch(form))
       => /\ pageState' = "success"
          /\ IsPrefix(addedCards, addedCards')
          /\ Len(Appended) = 1
          /\ Fields(Appended[1]) = form]_vars

\* success was entered by a submit that committed at once (no duplicate was
\* held), into a ledger that already held a card
C1_Witness ==
  /\ pageState = "success"
  /\ pendingDuplicate = Null
  /\ Len(addedCards) = 2
  /\ Fields(addedCards[2]) = form

\* C2: in state form, a submit of a valid candidate that matches a card of
\* the pool moves to confirm-duplicate, holds a matching card of the pool as
\* the pending duplicate, and leaves the ledger unchanged.
C2_SubmitWithDuplicateAsksFirst ==
  [][(SubmitStep /\ IsValid(form) /\ PoolHasMatch(form))
       => /\ pageState' = "confirm-duplicate"
          /\ pendingDuplicate' # Null
          /\ \E i \in 1..Len(AllCards) : pendingDuplicate' = AllCards[i]
          /\ Matches(pendingDuplicate', form)
          /\ addedCards' = addedCards]_vars

\* a duplicate of the dataset is held, found under another letter case
C2_Witness ==
  /\ pageState = "confirm-duplicate"
  /\ pendingDuplicate # Null
  /\ pendingDuplicate = ExistingCards[1]
  /\ pendingDuplicate.store # form.store

\* C3: in state confirm-duplicate, "Add Anyway" is always possible (while the
\* ledger of the model has room), moves to success and appends exactly one
\* record, with the fields of the candidate whose submit entered the state.
C3_ConfirmCommitsTheHeldCandidate ==
  /\ []((pageState = "confirm-duplicate" /\ Len(addedCards) < MaxCards)
          => ENABLED AddAnyway)
  /\ [][AddAnyway
          => /\ pageState' = "success"
             /\ IsPrefix(addedCards, addedCards')
             /\ Len(Appended) = 1
             /\ Fields(Appended[1]) = submitted]_vars

\* success was entered by "Add Anyway": the duplicate is still held
C3_Witness ==
  /\ pageState = "success"
  /\ pendingDuplicate # Null
  /\ Matches(pendingDuplicate, form)
  /\ Fields(addedCards[Len(addedCards)]) = form

\* C4: in state form, a submit of a candidate with a validation error stays
\* in form, publishes exactly the errors of validateForm, and leaves the
\* ledger and the held duplicate unchanged.
C4_SubmitWithErrorsPublishesThem ==
  [][(SubmitStep /\ ~IsValid(form))
       => /\ pageState' = "form"
          /\ fieldErrors' = ValidateForm(form)
          /\ addedCards' = addedCards
          /\ pendingDuplicate' = pendingDuplicate]_vars

\* errors are on display for a partly filled form, with a card in the ledger
C4_Witness ==
  /\ pageState = "form"
  /\ addedCards # <<>>
  /\ form.store # <<>>
  /\ DOMAIN fieldErrors = {"last4", "amount"}

\* C5: a valid candidate with the last4 of a card of the ledger and its
\* store up to letter case is never committed by its submit: the submit goes
\* to confirm-duplicate and leaves the ledger unchanged.
C5_SessionCardsAreDuplicateHazards ==
  [][(SubmitStep /\ IsValid(form) /\ MatchesLedger(form))
       => /\ pageState' = "confirm-duplicate"
          /\ addedCards' = addedCards]_vars

\* the held duplicate is a card that a bulk import added to the ledger, and
\* its store differs from the candidate's in letter case
C5_Witness ==
  /\ pageState = "confirm-duplicate"
  /\ pendingDuplicate # Null
  /\ pendingDuplicate.id >= 9000
  /\ pendingDuplicate.store # form.store
  /\ importedCount = Len(addedCards)

\* the k-th record of the ledger matched, when it was appended, a card of
\* the dataset or a record before it in the ledger
WasDuplicateWhenAppended(ledger, k) ==
  \/ MatchesDataset(ledger[k])
  \/ \E j \in 1..(k - 1) : Matches(ledger[j], ledger[k])

\* C6: a step that appends a record matching a card of the dataset or an
\* earlier record of the ledger is "Add Anyway" or an import of all rows
\* except errors.
C6_DuplicatesNeedADecision ==
  [][(\E k \in (Len(addedCards) + 1)..Len(addedCards') :
        WasDuplicateWhenAppended(addedCards', k))
       => \/ AddAnyway
          \/ \E t \in ClockFrom(now) : HandleCSVImport(TRUE, t)]_vars

\* C7: the ledger before a step is a prefix of the ledger after it.
C7_LedgerIsAppendOnly == [][IsPrefix(addedCards, addedCards')]_vars

\* the ledger holds a card of the form and a card of an import
C7_Witness ==
  /\ Len(addedCards) = 2
  /\ pageState = "success"
  /\ csvImportDone
  /\ importedCount = 1

\* C8: a step gives each record it appends an id above the ids of all
\* records before it in the ledger and different from every id of the
\* dataset.
C8_IdsStrictlyIncrease ==
  [][\A k \in (Len(addedCards) + 1)..Len(addedCards') :
       /\ \A j \in 1..(k - 1) : addedCards'[j].id < addedCards'[k].id
       /\ \A e \in 1..Len(ExistingCards) :
            ExistingCards[e].id # addedCards'[k].id]_vars

\* the positions of the rows with a status in S, and the k-th of them
Selected(S) == {i \in 1..Len(csvRows) : csvRows[i].status \in S}
KthSelected(S, k) ==
  CHOOSE i \in Selected(S) : Cardinality({j \in Selected(S) : j <= i}) = k

\* the step appends exactly the rows with a status in S, in file order, and
\* reports their number
ImportsExactly(S) ==
  /\ IsPrefix(addedCards, addedCards')
  /\ Len(Appended) = Cardinality(Selected(S))
  /\ \A k \in 1..Len(Appended) :
       Fields(Appended[k]) = Fields(csvRows[KthSelected(S, k)])
  /\ importedCount' = Len(Appended)

\* C9: "Import Valid" appends exactly the rows with status valid and "Import
\* All Except Errors" exactly the rows with status valid or duplicate, in
\* file order; the imported count is the number of records appended.
C9_ImportAppendsTheSelectedRows ==
  [][/\ (\E t \in ClockFrom(now) : HandleCSVImport(FALSE, t))
          => ImportsExactly({"valid"})
     /\ (\E t \in ClockFrom(now) : HandleCSVImport(TRUE, t))
          => ImportsExactly({"valid", "duplicate"})]_vars

\* a file with a valid, a duplicate and an error row was imported with
\* "Import All Except Errors"
C9_Witness ==
  /\ csvImportDone
  /\ importedCount = 2
  /\ Len(addedCards) = 2
  /\ \E i \in 1..Len(csvRows) : csvRows[i].status = "error"
  /\ \E i \in 1..Len(csvRows) : csvRows[i].status = "duplicate"
  /\ Fields(addedCards[2]) = Fields(csvRows[2])

\* C10: once no read is in flight, the rows displayed are the rows parsed
\* from the most recently started upload, the one whose name is displayed.
C10_LatestUploadIsDisplayed ==
  (reads = <<>> /\ csvFileName # <<>>) => csvRows = ParsedFile[csvFileName]

----------------------------------------------------------------------------
(* Properties of the bulk import and of the helpers                         *)

\* the displayed rows without a validation error that match no card of the
\* dataset
CleanRows ==
  {i \in 1..Len(csvRows) :
     csvRows[i].errors = <<>> /\ ~MatchesDataset(csvRows[i])}

\* C11: a displayed row without a validation error that matches no card of
\* the dataset has status valid, whatever the ledger and the other rows of
\* the file hold, and "Import Valid" appends every such row: two identical
\* rows of one file are both valid and both appended.
C11_RowsIgnoreTheSession ==
  /\ [](\A i \in CleanRows : csvRows[i].status = "valid")
  /\ [][(\E t \in ClockFrom(now) : HandleCSVImport(FALSE, t))
          => /\ Len(Appended) = Cardinality(CleanRows)
             /\ \A i \in CleanRows : \E k \in 1..Len(Appended) :
                  Fields(Appended[k]) = Fields(csvRows[i])]_vars

\* two identical rows of one file were both valid and "Import Valid" appended
\* both
C11_Witness ==
  /\ Len(csvRows) = 2
  /\ Fields(csvRows[1]) = Fields(csvRows[2])
  /\ csvRows[1].status = "valid" /\ csvRows[2].status = "valid"
  /\ csvImportDone
  /\ importedCount = 2
  /\ Len(addedCards) = 2
  /\ Fields(addedCards[1]) = Fields(csvRows[1])
  /\ Fields(addedCards[2]) = Fields(csvRows[2])

\* C12: in state confirm-duplicate "Go Back & Edit" is always possible; it
\* moves to form, clears the held duplicate and leaves the five fields of
\* the candidate and the ledger unchanged.
C12_GoBackKeepsTheCandidate ==
  /\ [](pageState = "confirm-duplicate" => ENABLED GoBack)
  /\ [][GoBack
          => /\ pageState' = "form"
             /\ pendingDuplicate' = Null
             /\ form' = form
             /\ addedCards' = addedCards]_vars

\* form was entered by "Go Back & Edit": the candidate that was submitted is
\* still in the fields, not yet edited, and matches a card of the ledger
C12_Witness ==
  /\ pageState = "form"
  /\ pendingDuplicate = Null
  /\ submitted # Null
  /\ submitted = form
  /\ MatchesLedger(form)

\* C13: in state success "Add Another" is always possible; it moves to form
\* with the five fields of the candidate empty and no field error, and
\* leaves the ledger unchanged.
C13_AddAnotherResetsTheCandidate ==
  /\ [](pageState = "success" => ENABLED HandleAddAnother)
  /\ [][HandleAddAnother
          => /\ pageState' = "form"
             /\ form' = EMPTY_FORM
             /\ fieldErrors' = NoErrors
             /\ addedCards' = addedCards]_vars

\* form was entered by "Add Another": no file was ever uploaded, so the card
\* of the ledger was committed from the form, which is empty again
C13_Witness ==
  /\ pageState = "form"
  /\ form = EMPTY_FORM
  /\ fieldErrors = NoErrors
  /\ addedCards # <<>>
  /\ csvFileName = <<>>
  /\ reads = <<>>

\* C14: the page is always in one of the three states, and in each of them
\* the operator can act: in form a field can be edited, in confirm-duplicate
\* "Go Back & Edit" leads to form, in success "Add Another" leads to form.
C14_NoTerminalState ==
  /\ pageState \in {"form", "confirm-duplicate", "success"}
  /\ pageState = "form" => ENABLED (StoreChange /\ form' # form)
  /\ pageState = "confirm-duplicate" => ENABLED (GoBack /\ pageState' = "form")
  /\ pageState = "success"
       => ENABLED (HandleAddAnother /\ pageState' = "form")

\* form was reached again after an upload, an import, a submit of a duplicate
\* of the imported card, "Add Anyway" and "Add Another"
C14_Witness ==
  /\ pageState = "form"
  /\ form = EMPTY_FORM
  /\ csvImportDone
  /\ Len(addedCards) = 2
  /\ addedCards[1].store = Chars("Gap") /\ addedCards[1].last4 = Chars("5678")
  /\ addedCards[2].store = Chars("gap") /\ addedCards[2].last4 = Chars("5678")

\* the files of the model whose name does not end in ".csv"
NonCsvFiles == {file \in Files : ~EndsWith(file.name, Chars(".csv"))}

\* what the bulk import displays and holds, and the ledger
UploadOutput ==
  <<csvRows, csvFileName, csvImportDone, importedCount, reads, addedCards>>

\* C15: in every state a file whose name does not end in ".csv" can be
\* uploaded, and no such upload changes the displayed rows, the displayed
\* file name, the import-done flag, the imported count, the reads in flight
\* or the ledger.
C15_NonCsvUploadIsIgnored ==
  \A file \in NonCsvFiles :
    /\ ENABLED ProcessFile(file)
    /\ ~ENABLED (ProcessFile(file) /\ UploadOutput' # UploadOutput)

\* c.txt is uploaded while the rows of an imported file are displayed and a
\* read is in flight, and the upload leaves the state as it is
C15_Witness ==
  /\ FileC \in NonCsvFiles
  /\ csvRows # <<>>
  /\ csvImportDone
  /\ importedCount > 0
  /\ addedCards # <<>>
  /\ reads # <<>>
  /\ ENABLED (ProcessFile(FileC) /\ UNCHANGED vars)

----------------------------------------------------------------------------
(* Specification of the helpers: validateForm, findDuplicate and parseCSV   *)
(* are applied to candidates, ledgers and texts drawn from bounded sets.    *)
(* form holds the candidate and addedCards the ledger, both fixed by the    *)
(* initial state; fieldErrors, pendingDuplicate and csvRows hold the result *)
(* of the latest call of validateForm, findDuplicate and parseCSV.          *)

\* the candidates the helpers are applied to
HelperStores   == {Chars(" "), Chars("Gap"), Chars("gAP"), Chars("Gap ")}
HelperLast4s   == {Chars("0012"), Chars("12"), Chars("5678"), Chars("12a4"),
                   Chars("12345")}
HelperAmounts  == {Chars(""), Chars("0"), Chars("-5"), Chars("5"),
                   Chars("abc"), Chars("12.5.6"), Chars(".5"), Chars("0.0")}
HelperAddedBys == {Chars(" "), Chars("Al")}

Candidates ==
  {[store |-> s, last4 |-> l, amount |-> a, addedBy |-> b, notes |-> <<>>] :
     s \in HelperStores, l \in HelperLast4s, a \in HelperAmounts,
     b \in HelperAddedBys}

\* the ledgers the helpers are applied to: up to MaxCards records that were
\* committed, with the ids of commits one millisecond apart
LedgerCards ==
  {[store |-> Chars(sl[1]), last4 |-> Chars(sl[2]), amount |-> Chars("5"),
    addedBy |-> Chars("Al"), notes |-> <<>>] :
     sl \in {<<"gap", "0012">>, <<"GAP", "5678">>, <<"gap", "5678">>}}

Ledgers ==
  {[i \in 1..Len(cs) |-> WithId(cs[i], SessionStart + i)] :
     cs \in UNION {[1..n -> LedgerCards] : n \in 0..MaxCards}}

\* CSV_TEMPLATE and the name it is downloaded under
CSV_TEMPLATE ==
  Chars("store,last4,amount,added_by,notes\nWalmart,1234,100.00,Sarah Johnson,Example card\nTarget,5678,50.00,Mike Davis,")
TemplateName == Chars("gift_card_import_template.csv")

\* the texts parseCSV is applied to: one with a header line, two without,
\* the second of them with a store name that contains "store", and the empty
\* text
TextWithHeader ==
  Chars("Store,Last4\nGap,0012,0,Al\n gap , 0012 , 5 , Al , a, b \n\n,1234,5,Al\nGap,12345,abc,\nGap,5678\n")
TextHeaderless ==
  Chars("Gap,5678,5,Al\r\nGAP,0012,12.5.6,Al\n \nGap ,12,5x, ")
TextBookstore ==
  Chars("Bookstore,1111,5,Al\ngap,5678,.5,Al,n")
HelperTexts == {TextWithHeader, TextHeaderless, TextBookstore, Chars("")}

\* parseCSV(text) of each of these texts
ParsedText == [text \in HelperTexts |-> ParseCSV(text)]

\* parseCSV(CSV_TEMPLATE), the pre-existing dataset being empty
ParsedTemplate == ParseCSVWith(CSV_TEMPLATE, <<>>)

HelpersInit ==
  /\ form \in Candidates
  /\ addedCards \in Ledgers
  /\ fieldErrors = NoErrors
  /\ pageState = "form"
  /\ pendingDuplicate = Null
  /\ csvRows = <<>>
  /\ csvFileName = <<>>
  /\ csvImportDone = FALSE
  /\ importedCount = 0
  /\ reads = <<>>
  /\ now = SessionStart
  /\ submitted = Null

\* errors = validateForm(form)
CallValidateForm ==
  /\ fieldErrors' = ValidateForm(form)
  /\ UNCHANGED <<form, pageState, addedCards, pendingDuplicate, submitted, now>>
  /\ UNCHANGED csvVars

\* dup = findDuplicate(form.store, form.last4, allCards)
CallFindDuplicate ==
  /\ pendingDuplicate' = FindDuplicate(form.store, form.last4, AllCards)
  /\ UNCHANGED <<form, fieldErrors, pageState, addedCards, submitted, now>>
  /\ UNCHANGED csvVars

\* parseCSV(text) of an uploaded text
CallParseCSV ==
  \E text \in HelperTexts :
    /\ csvRows' = ParsedText[text]
    /\ csvFileName' = Chars("t.csv")
    /\ UNCHANGED <<csvImportDone, importedCount, reads, addedCards, now>>
    /\ UNCHANGED formVars

\* parseCSV of the downloaded template, the pre-existing dataset being empty
CallParseTemplate ==
  /\ csvRows' = ParsedTemplate
  /\ csvFileName' = TemplateName
  /\ UNCHANGED <<csvImportDone, importedCount, reads, addedCards, now>>
  /\ UNCHANGED formVars

HelpersNext ==
  \/ CallValidateForm
  \/ CallFindDuplicate
  \/ CallParseCSV
  \/ CallParseTemplate

SpecHelpers == HelpersInit /\ [][HelpersNext]_vars

----------------------------------------------------------------------------
(* Properties of the helpers                                                *)

\* the positions of the cards of the dataset and of the ledger that have
\* the last4 of f and its store up to letter case
DatasetHits(f) ==
  {i \in 1..Len(ExistingCards) : Matches(ExistingCards[i], f)}
LedgerHits(f) ==
  {i \in 1..Len(addedCards) : Matches(addedCards[i], f)}

\* the least position of a non-empty set of positions
First(S) == CHOOSE i \in S : \A j \in S : i <= j

\* r is what the lookup of f in the pool has to return: the first matching
\* card of the dataset, else the card allCards makes of the first matching
\* record of the ledger, else none
IsFirstMatch(r, f) ==
  IF DatasetHits(f) # {}
  THEN r = ExistingCards[First(DatasetHits(f))]
  ELSE IF LedgerHits(f) # {}
  THEN /\ r # Null
       /\ r = AllCards[Len(ExistingCards) + First(LedgerHits(f))]
       /\ r.id = 9000 + (First(LedgerHits(f)) - 1)
       /\ r.store = addedCards[First(LedgerHits(f))].store
       /\ r.last4 = f.last4
  ELSE r = Null

\* C16: findDuplicate(store, last4, allCards) returns the first card in pool
\* order, the dataset before the ledger and the ledger in commit order, with
\* the given store up to letter case and exactly the given last4 string, and
\* none when there is no such card.
C16_FindDuplicateReturnsFirstMatch ==
  /\ IsFirstMatch(FindDuplicate(form.store, form.last4, AllCards), form)
  /\ pendingDuplicate # Null => IsFirstMatch(pendingDuplicate, form)
  /\ FindDuplicate(Chars("Gap"), Chars("12"), AllCards) = Null

\* the lookup returned the first of two matching records of the ledger, found
\* under another letter case, for a candidate that matches no dataset card
C16_Witness ==
  /\ pendingDuplicate # Null
  /\ DatasetHits(form) = {}
  /\ LedgerHits(form) = {1, 2}
  /\ pendingDuplicate.id = 9000
  /\ pendingDuplicate.store # form.store
  /\ addedCards[1].store # addedCards[2].store

\* s is empty or holds white space only
Blank(s) == \A i \in 1..Len(s) : IsSpace(s[i])

\* s is four decimal digits
FourDigits(s) == Len(s) = 4 /\ \A i \in 1..4 : s[i] \in {Digits[d] : d \in 1..10}

\* the amounts of the candidates that parseFloat reads as a number above 0:
\* 5, 12.5 (the text after the second dot is ignored) and 0.5
PositiveAmounts == {Chars("5"), Chars("12.5.6"), Chars(".5")}

\* e holds an error for exactly the fields of f that fail their own rule
ErrorsByRule(e, f) ==
  /\ DOMAIN e \subseteq {"store", "last4", "amount", "addedBy"}
  /\ "store" \in DOMAIN e <=> Blank(f.store)
  /\ "last4" \in DOMAIN e <=> ~FourDigits(f.last4)
  /\ "amount" \in DOMAIN e <=> f.amount \notin PositiveAmounts
  /\ "addedBy" \in DOMAIN e <=> Blank(f.addedBy)

\* C17: validateForm reports an error for exactly the fields that fail their
\* own rule, whatever the other fields hold: store blank, last4 not four
\* decimal digits, amount empty, not a number or not above 0, addedBy blank.
C17_RulesAreIndependent ==
  /\ ErrorsByRule(ValidateForm(form), form)
  /\ fieldErrors # NoErrors => ErrorsByRule(fieldErrors, form)

\* a candidate with a store, a last4 of five digits and a good amount and
\* addedBy got the last4 error and no other
C17_Witness ==
  /\ ~Blank(form.store)
  /\ Len(form.last4) = 5
  /\ form.amount \in PositiveAmounts
  /\ DOMAIN fieldErrors = {"last4"}
  /\ fieldErrors["last4"] = "Must be exactly 4 digits"

\* C18: parseCSV of the template text, the pre-existing dataset being empty,
\* gives exactly two rows, numbered 1 and 2, both with status valid and
\* without errors.
C18_TemplateParsesToTwoValidRows ==
  /\ Len(ParsedTemplate) = 2
  /\ csvFileName = TemplateName
       => /\ Len(csvRows) = 2
          /\ \A i \in 1..2 :
               /\ csvRows[i].rowNum = i
               /\ csvRows[i].status = "valid"
               /\ csvRows[i].errors = <<>>

\* the rows of the template are displayed: Walmart with its note, Target
\* without one
C18_Witness ==
  /\ csvFileName = TemplateName
  /\ Len(csvRows) = 2
  /\ csvRows[1].store = Chars("Walmart")
  /\ csvRows[1].amount = Chars("100.00")
  /\ csvRows[1].notes = Chars("Example card")
  /\ csvRows[2].store = Chars("Target")
  /\ csvRows[2].addedBy = Chars("Mike Davis")
  /\ csvRows[2].notes = <<>>

\* the dataset the displayed rows were parsed against
ParsedAgainst == IF csvFileName = TemplateName THEN <<>> ELSE ExistingCards

\* C19: the status of every parsed row is error when its error list is not
\* empty, else duplicate when findDuplicate finds its store and last4 in the
\* pre-existing dataset, else valid; so a row has status error exactly when
\* its error list is not empty.
C19_StatusIsDerived ==
  \A i \in 1..Len(csvRows) :
    /\ csvRows[i].status =
         IF csvRows[i].errors # <<>> THEN "error"
         ELSE IF FindDuplicate(csvRows[i].store, csvRows[i].last4,
                               ParsedAgainst) # Null
              THEN "duplicate"
              ELSE "valid"
    /\ csvRows[i].status = "error" <=> csvRows[i].errors # <<>>

\* a row with an error that also matches a card of the dataset has status
\* error, next to a row with status duplicate
C19_Witness ==
  /\ \E i \in 1..Len(csvRows) :
       /\ csvRows[i].errors # <<>>
       /\ MatchesDataset(csvRows[i])
       /\ csvRows[i].status = "error"
  /\ \E i \in 1..Len(csvRows) :
       /\ csvRows[i].status = "duplicate"
       /\ csvRows[i].store # ExistingCards[1].store

\* the messages of parseCSV for the fields of validateForm
CsvMessage ==
  [store   |-> "Store missing",
   last4   |-> "Last 4 must be exactly 4 digits",
   amount  |-> "Invalid amount",
   addedBy |-> "Added by missing"]

\* the message of field k for row r when validateForm reports k for the
\* candidate made of the fields of r
RowError(r, k) ==
  IF k \in DOMAIN ValidateForm(Fields(r)) THEN <<CsvMessage[k]>> ELSE <<>>

\* C20: every parsed row carries the error of a field exactly when
\* validateForm reports that field for the candidate made of the store,
\* last4, amount and addedBy of the row, in the order store, last4, amount,
\* addedBy.
C20_ParserAppliesTheValidatorRules ==
  \A i \in 1..Len(csvRows) :
    csvRows[i].errors =
      RowError(csvRows[i], "store") \o RowError(csvRows[i], "last4")
        \o RowError(csvRows[i], "amount") \o RowError(csvRows[i], "addedBy")

\* a row with three errors in the order of the fields, next to a row with
\* the store error alone and a row with the amount error alone
C20_Witness ==
  /\ \E i \in 1..Len(csvRows) :
       csvRows[i].errors = <<"Last 4 must be exactly 4 digits",
                             "Invalid amount", "Added by missing">>
  /\ \E i \in 1..Len(csvRows) : csvRows[i].errors = <<"Store missing">>
  /\ \E i \in 1..Len(csvRows) :
       csvRows[i].errors = <<"Invalid amount">> /\ csvRows[i].amount = Chars("0")

\* the texts without a header line: each of their lines is blank or a card
HeaderlessTexts == {TextHeaderless, TextBookstore}

\* the non-blank lines of a text
NonBlankLines(text) == NonBlank(SplitLines(Trim(text)))

\* the non-blank lines of a text after its first line, when that line
\* contains "store" in any letter case
DataLines(text) ==
  NonBlank(IF Includes(ToLowerCase(SplitLines(Trim(text))[1]), StrStore)
           THEN Tail(SplitLines(Trim(text)))
           ELSE SplitLines(Trim(text)))

Tokens(line) ==
  [k \in 1..Len(Split(line, ",")) |-> Trim(Split(line, ",")[k])]

\* the tokens of each data line of each text
TokensOf ==
  [text \in HelperTexts |->
     [i \in 1..Len(DataLines(text)) |-> Tokens(DataLines(text)[i])]]

\* the k-th of a sequence of tokens, empty when there are fewer than k
Token(tokens, k) == IF k <= Len(tokens) THEN tokens[k] ELSE <<>>

\* C22: the first four trimmed tokens of a line are the store, last4, amount
\* and addedBy of its row, the tokens from the fifth on, joined with commas,
\* are its notes, and a field without a token is the empty string.
C22_TokensBecomeFields ==
  \A text \in HelperTexts :
    csvRows = ParsedText[text]
      => /\ Len(csvRows) = Len(TokensOf[text])
         /\ \A i \in 1..Len(csvRows) :
              /\ csvRows[i].store = Token(TokensOf[text][i], 1)
              /\ csvRows[i].last4 = Token(TokensOf[text][i], 2)
              /\ csvRows[i].amount = Token(TokensOf[text][i], 3)
              /\ csvRows[i].addedBy = Token(TokensOf[text][i], 4)
              /\ csvRows[i].notes =
                   Join(SubSeq(TokensOf[text][i], 5, Len(TokensOf[text][i])))

\* a line of six tokens gave the notes "a,b", and a line of two tokens gave
\* an empty amount, addedBy and notes
C22_Witness ==
  /\ csvRows = ParsedText[TextWithHeader]
  /\ \E i \in 1..Len(csvRows) :
       /\ Len(TokensOf[TextWithHeader][i]) = 6
       /\ csvRows[i].addedBy = Chars("Al")
       /\ csvRows[i].notes = Chars("a,b")
  /\ \E i \in 1..Len(csvRows) :
       /\ Len(TokensOf[TextWithHeader][i]) = 2
       /\ csvRows[i].last4 = Chars("5678")
       /\ csvRows[i].amount = <<>>
       /\ csvRows[i].addedBy = <<>>
       /\ csvRows[i].notes = <<>>

----------------------------------------------------------------------------
(* Properties of the page across the single entry and the bulk import       *)

\* f passes the four rules
PassesAllRules(f) ==
  /\ ~Blank(f.store)
  /\ FourDigits(f.last4)
  /\ ~AmountInvalid(f.amount)
  /\ ~Blank(f.addedBy)

\* C23: every record of the ledger passes the four rules: its store is not
\* blank, its last4 is four decimal digits, its amount is a number above 0
\* and its addedBy is not blank.
C23_LedgerHoldsValidRecordsOnly ==
  \A i \in 1..Len(addedCards) : PassesAllRules(addedCards[i])

\* a candidate with errors was submitted and is still in the form, an import
\* left an error row behind, and the ledger is full
C23_Witness ==
  /\ pageState = "form"
  /\ DOMAIN fieldErrors # {}
  /\ ~PassesAllRules(form)
  /\ csvImportDone
  /\ \E i \in 1..Len(csvRows) : csvRows[i].status = "error"
  /\ Len(addedCards) = 2

\* C24: in state form no duplicate is held; in state confirm-duplicate the
\* held duplicate is a card of the pool with the last4 of the candidate and
\* its store up to letter case.
C24_HeldDuplicateFitsTheState ==
  /\ pageState = "form" => pendingDuplicate = Null
  /\ pageState = "confirm-duplicate"
       => /\ pendingDuplicate # Null
          /\ \E i \in 1..Len(AllCards) : pendingDuplicate = AllCards[i]
          /\ Matches(pendingDuplicate, form)

\* the first card of the ledger is held as the duplicate while the ledger
\* holds a second card and a read is in flight
C24_Witness ==
  /\ pageState = "confirm-duplicate"
  /\ Len(addedCards) = 2
  /\ pendingDuplicate = AllCards[Len(ExistingCards) + 1]
  /\ reads # <<>>

\* latestCard, the card the success view reports as added
LatestCard == addedCards[Len(addedCards)]

\* C25: in state success the card reported as added, the last record of the
\* ledger, is the candidate that the submit or "Add Anyway" entering success
\* committed, which is still in the form.
C25_SuccessReportsTheCommittedCard ==
  pageState = "success"
    => /\ addedCards # <<>>
       /\ Fields(LatestCard) = form

\* an import button is rendered: rows are displayed, the import-done flag is
\* off and a row is valid or duplicate
ImportOffered ==
  /\ csvRows # <<>>
  /\ ~csvImportDone
  /\ (csvValid > 0 \/ csvDuplicates > 0)

\* C26: whenever an import button is offered, the rows displayed, which the
\* import appends, are the rows parsed from the most recently accepted
\* upload, the file whose name is displayed; in particular no import is
\* offered on the rows of an earlier file while the read of a new upload is
\* in flight.
C26_ImportOnlyOfTheLatestUpload ==
  ImportOffered
    => /\ csvFileName # <<>>
       /\ csvRows = ParsedFile[csvFileName]

\* C27: when the read of the latest accepted upload completes and its rows,
\* one of them valid, are displayed, the import-done flag is off and an
\* import button is offered.
C27_CompletedUploadIsImportable ==
  [][(/\ reads # <<>>
      /\ reads[Len(reads)] = csvFileName
      /\ ReaderOnload(Len(reads))
      /\ csvValid' > 0)
       => /\ ~csvImportDone'
          /\ ImportOffered']_vars

=============================================================================
